---- MODULE Spec2Model ----
(***************************************************************************)
(* px-nesemu: a cycle-stepped 6502 core (Nes::run_cpu), a video dot clock  *)
(* (Nes::run_ppu) and the co-scheduler that interleaves them (Nes::run),   *)
(* driven by main's resume loop.  Every generator is modelled as the       *)
(* state machine the compiler derives from it: one action per resume,      *)
(* from the suspension point it is resumed at up to its next yield.        *)
(***************************************************************************)
EXTENDS Integers, Sequences, FiniteSets, TLC

VARIABLES
    cpu,      \* struct Cpu: pc, a, x, y, s, p, nmi
    ram,      \* Nes.ram: [u8; 0x0800], held as its non-zero bytes (offset :> byte)
    rom,      \* Nes.rom: the PRG-ROM as sample_rom builds it (program, interrupt_vectors)
    run_cpu,  \* the run_cpu generator: suspension point and the locals live across it
    run_ppu,  \* the run_ppu generator: suspension point and the loop variable cycle
    nes_run,  \* the run generator driven by main: what it resumes next, loop index
    fatal,    \* the panic that ended the process, or None
    hist      \* history: counts of what has happened so far (not program state)

vars == <<cpu, ram, rom, run_cpu, run_ppu, nes_run, fatal, hist>>

-----------------------------------------------------------------------------
(* Bounds of the model *)

\* master cycles main requests in the short runs over many ROMs
MaxCycles == 16
\* number of instructions of the generated programs
MaxInstrs == 2
\* frames' worth of master cycles main requests in the long run (341*262*MaxFrames + 1)
MaxFrames == 1
\* calls of read_u8 / write_u8 made directly on the bus
MaxAccesses == 3

\* main's loop as it is, never cut off (the history counters are then not kept)
Unlimited == -1

-----------------------------------------------------------------------------
(* Machine constants *)

RAM_LEN == \H0800
ROM_BASE == \H8000
ROM_LEN == \H4000
RESET_VECTOR_OFFSET == \H3FFC
PPU_CYCLES_PER_FRAME == 341 * 262
PPU_PER_CPU == 3

U8 == 256
U16 == 65536
Byte == 0 .. 255

None == <<"None">>
UnmappedAddress(addr) == <<"UnmappedAddress", addr>>
UnimplementedOpcode(opcode) == <<"UnimplementedOpcode", opcode>>

\* u16::wrapping_add, u8::wrapping_add
wrapping_add16(v, d) == (v + d) % U16
wrapping_add8(v, d) == (v + d) % U8

\* (lo as u16) | ((hi as u16) << 8)
u16_from(lo, hi) == lo + hi * 256

-----------------------------------------------------------------------------
(* Rom: sample_rom's construction, for any program and vectors *)

\* program, padded with zeros, cut to 16 KiB less the vectors, then the vectors
prg_rom(r, off) ==
    LET code_len == ROM_LEN - Len(r.interrupt_vectors)
    IN  IF off < code_len
        THEN IF off < Len(r.program) THEN r.program[off + 1] ELSE 0
        ELSE r.interrupt_vectors[off - code_len + 1]

prg_rom_len(r) == (ROM_LEN - Len(r.interrupt_vectors)) + Len(r.interrupt_vectors)

sample_program == <<\HA9, \H05, \H69, \H06, \HAA, \H86, \H01, \HA5, \H01, \H4C, \H09, \H80>>

MakeRom(program, reset) ==
    [program |-> program,
     interrupt_vectors |-> <<0, 0, reset % 256, reset \div 256, 0, 0>>]

sample_rom == MakeRom(sample_program, ROM_BASE)

-----------------------------------------------------------------------------
(* Bus: read_u8 / write_u8 on a machine m = [cpu, ram, rom, run_cpu, fatal] *)

\* [0; 0x0800]: no byte is non-zero
ram_zeroed == [off \in {} |-> 0]

\* ram[ram_offset].get()
ram_get(cells, off) == IF off \in DOMAIN cells THEN cells[off] ELSE 0

\* ram[ram_offset].set(value)
ram_set(cells, off, value) ==
    [o \in (IF value = 0 THEN DOMAIN cells \ {off} ELSE DOMAIN cells \cup {off}) |->
        IF o = off THEN value ELSE cells[o]]

\* the RAM arm widened to the three mirrors of the RAM, 0x0000..=0x1FFF
InRam_mirrored(addr) == addr \in 0 .. \H1FFF

InRam(addr) == addr \in 0 .. \H07FF
InRom(addr) == addr \in \H8000 .. \HFFFF
Mapped(addr) == InRam(addr) \/ InRom(addr)

\* the byte read_u8 returns; only meaningful when Mapped(addr), otherwise it panics
read_u8(m, addr) ==
    IF InRam(addr) THEN ram_get(m.ram, addr % RAM_LEN)
    ELSE prg_rom(m.rom, (addr - ROM_BASE) % prg_rom_len(m.rom))

\* write_u8 with the ROM window written through to the RAM cells
write_u8_through(m, addr, value) == ram_set(m.ram, addr % RAM_LEN, value)

\* the RAM write_u8 leaves; only meaningful when Mapped(addr), otherwise it panics
write_u8(m, addr, value) ==
    IF InRam(addr) THEN ram_set(m.ram, addr % RAM_LEN, value)
    ELSE m.ram

\* read_u16: little-endian, the address of the high byte wraps at 16 bits
read_u16(m, addr) == u16_from(read_u8(m, addr), read_u8(m, wrapping_add16(addr, 1)))

\* unimplemented!("Read from ...") / unimplemented!("Write to ..."): the process dies
Panic(m, why) == [m EXCEPT !.fatal = why]

-----------------------------------------------------------------------------
(* Nes::from_rom *)

\* from_rom reading the vector two bytes early, at 0x3FFA / 0x3FFB
from_rom_nmi_vector(r) ==
    LET pc_lo == prg_rom(r, RESET_VECTOR_OFFSET - 2)
        pc_hi == prg_rom(r, RESET_VECTOR_OFFSET - 1)
    IN  [cpu |-> [pc |-> u16_from(pc_lo, pc_hi), a |-> 0, x |-> 0, y |-> 0,
                  s |-> \HFD, p |-> \H34, nmi |-> FALSE],
         ram |-> ram_zeroed,
         rom |-> r]

from_rom(r) ==
    LET pc_lo == prg_rom(r, RESET_VECTOR_OFFSET)
        pc_hi == prg_rom(r, RESET_VECTOR_OFFSET + 1)
    IN  [cpu |-> [pc |-> u16_from(pc_lo, pc_hi), a |-> 0, x |-> 0, y |-> 0,
                  s |-> \HFD, p |-> \H34, nmi |-> FALSE],
         ram |-> ram_zeroed,
         rom |-> r]

-----------------------------------------------------------------------------
(* Nes::run_cpu: one operator per resume, from a suspension point to the    *)
(* next yield.  Suspension points (field at of run_cpu):                    *)
(*   "start"    not yet resumed                                             *)
(*   "opcode"   the yield after the opcode fetch                            *)
(*   "stx_addr" the yield after cycle 2 of 0x86                             *)
(*   "lda_addr" the yield after cycle 2 of 0xA5                             *)
(*   "jmp_lo"   the yield after cycle 2 of 0x4C                             *)
(*   "done"     the last yield of an instruction                            *)

Suspended(at, opcode, addr, target_lo) ==
    [at |-> at, opcode |-> opcode, addr |-> addr, target_lo |-> target_lo]

\* if self.cpu.nmi.get() { println!("=== NMI! ==="); self.cpu.nmi.set(false); }
nmi_check(m) ==
    IF m.cpu.nmi THEN [m EXCEPT !.cpu.nmi = FALSE] ELSE m

\* the top of the loop without the NMI check
fetch_unchecked(m) ==
    LET pc == m.cpu.pc
    IN  IF ~Mapped(pc) THEN Panic(m, UnmappedAddress(pc))
        ELSE [m EXCEPT !.cpu.pc = wrapping_add16(pc, 1),
                       !.run_cpu = Suspended("opcode", read_u8(m, pc), 0, 0)]

\* top of the loop: the NMI check, then the opcode fetch, pc + 1, yield
fetch(m) ==
    LET m1 == nmi_check(m)
        pc == m1.cpu.pc
    IN  IF ~Mapped(pc) THEN Panic(m1, UnmappedAddress(pc))
        ELSE [m1 EXCEPT !.cpu.pc = wrapping_add16(pc, 1),
                        !.run_cpu = Suspended("opcode", read_u8(m1, pc), 0, 0)]

\* 0xA9 LDA #imm, were it to poll the NMI flag on its own cycle
lda_imm_polling(m) ==
    LET m1 == nmi_check(m)
        pc == m1.cpu.pc
    IN  IF ~Mapped(pc) THEN Panic(m1, UnmappedAddress(pc))
        ELSE [m1 EXCEPT !.cpu.pc = wrapping_add16(pc, 1),
                        !.cpu.a = read_u8(m1, pc),
                        !.run_cpu.at = "done"]

\* 0xA9 LDA #imm, were it to read the operand after advancing pc
lda_imm_late_read(m) ==
    LET pc == wrapping_add16(m.cpu.pc, 1)
    IN  IF ~Mapped(pc) THEN Panic(m, UnmappedAddress(pc))
        ELSE [m EXCEPT !.cpu.pc = pc,
                       !.cpu.a = read_u8(m, pc),
                       !.run_cpu.at = "done"]

\* 0xA9 LDA #imm
lda_imm(m) ==
    LET pc == m.cpu.pc
    IN  IF ~Mapped(pc) THEN Panic(m, UnmappedAddress(pc))
        ELSE [m EXCEPT !.cpu.pc = wrapping_add16(pc, 1),
                       !.cpu.a = read_u8(m, pc),
                       !.run_cpu.at = "done"]

\* 0x69 ADC #imm with u8::saturating_add
adc_imm_saturating(m) ==
    LET pc == m.cpu.pc
        sum == m.cpu.a + read_u8(m, pc)
    IN  IF ~Mapped(pc) THEN Panic(m, UnmappedAddress(pc))
        ELSE [m EXCEPT !.cpu.pc = wrapping_add16(pc, 1),
                       !.cpu.a = IF sum > 255 THEN 255 ELSE sum,
                       !.run_cpu.at = "done"]

\* 0x69 ADC #imm
adc_imm(m) ==
    LET pc == m.cpu.pc
    IN  IF ~Mapped(pc) THEN Panic(m, UnmappedAddress(pc))
        ELSE [m EXCEPT !.cpu.pc = wrapping_add16(pc, 1),
                       !.cpu.a = wrapping_add8(m.cpu.a, read_u8(m, pc)),
                       !.run_cpu.at = "done"]

\* 0xAA with the transfer going to Y
tax_into_y(m) ==
    LET pc == m.cpu.pc
    IN  IF ~Mapped(pc) THEN Panic(m, UnmappedAddress(pc))
        ELSE [m EXCEPT !.cpu.y = m.cpu.a,
                       !.run_cpu.at = "done"]

\* 0xAA TAX: a dummy read of pc, pc is not advanced
tax(m) ==
    LET pc == m.cpu.pc
    IN  IF ~Mapped(pc) THEN Panic(m, UnmappedAddress(pc))
        ELSE [m EXCEPT !.cpu.x = m.cpu.a,
                       !.run_cpu.at = "done"]

\* 0x86 STX zp with the write folded into cycle 2
stx_zp_2_storing(m) ==
    LET pc == m.cpu.pc
    IN  IF ~Mapped(pc) THEN Panic(m, UnmappedAddress(pc))
        ELSE [m EXCEPT !.cpu.pc = wrapping_add16(pc, 1),
                       !.ram = write_u8(m, read_u8(m, pc), m.cpu.x),
                       !.run_cpu.at = "done"]

\* 0x86 STX zp, cycle 2: read the operand
stx_zp_2(m) ==
    LET pc == m.cpu.pc
    IN  IF ~Mapped(pc) THEN Panic(m, UnmappedAddress(pc))
        ELSE [m EXCEPT !.cpu.pc = wrapping_add16(pc, 1),
                       !.run_cpu.addr = read_u8(m, pc),
                       !.run_cpu.at = "stx_addr"]

\* 0x86 STX zp, cycle 3: the write
stx_zp_3(m) ==
    LET addr == m.run_cpu.addr
    IN  IF ~Mapped(addr) THEN Panic(m, UnmappedAddress(addr))
        ELSE [m EXCEPT !.ram = write_u8(m, addr, m.cpu.x),
                       !.run_cpu.addr = 0,
                       !.run_cpu.at = "done"]

\* 0xA5 LDA zp, cycle 2: read the operand
lda_zp_2(m) ==
    LET pc == m.cpu.pc
    IN  IF ~Mapped(pc) THEN Panic(m, UnmappedAddress(pc))
        ELSE [m EXCEPT !.cpu.pc = wrapping_add16(pc, 1),
                       !.run_cpu.addr = read_u8(m, pc),
                       !.run_cpu.at = "lda_addr"]

\* 0xA5 LDA zp, cycle 3, returning from the generator instead of yielding
lda_zp_3_returning(m) ==
    LET addr == m.run_cpu.addr
    IN  IF ~Mapped(addr) THEN Panic(m, UnmappedAddress(addr))
        ELSE [m EXCEPT !.cpu.a = read_u8(m, addr),
                       !.run_cpu.addr = 0,
                       !.run_cpu.at = "complete"]

\* 0xA5 LDA zp, cycle 3: the read
lda_zp_3(m) ==
    LET addr == m.run_cpu.addr
    IN  IF ~Mapped(addr) THEN Panic(m, UnmappedAddress(addr))
        ELSE [m EXCEPT !.cpu.a = read_u8(m, addr),
                       !.run_cpu.addr = 0,
                       !.run_cpu.at = "done"]

\* 0x4C JMP abs, cycle 2, without the increment of pc
jmp_abs_2_no_advance(m) ==
    LET pc == m.cpu.pc
    IN  IF ~Mapped(pc) THEN Panic(m, UnmappedAddress(pc))
        ELSE [m EXCEPT !.run_cpu.target_lo = read_u8(m, pc),
                       !.run_cpu.at = "jmp_lo"]

\* 0x4C JMP abs, cycle 2: the low byte of the target
jmp_abs_2(m) ==
    LET pc == m.cpu.pc
    IN  IF ~Mapped(pc) THEN Panic(m, UnmappedAddress(pc))
        ELSE [m EXCEPT !.cpu.pc = wrapping_add16(pc, 1),
                       !.run_cpu.target_lo = read_u8(m, pc),
                       !.run_cpu.at = "jmp_lo"]

\* 0x4C JMP abs, cycle 3, with the high byte not shifted into the target
jmp_abs_3_low_only(m) ==
    LET pc == m.cpu.pc
    IN  IF ~Mapped(pc) THEN Panic(m, UnmappedAddress(pc))
        ELSE [m EXCEPT !.cpu.pc = m.run_cpu.target_lo,
                       !.run_cpu.target_lo = 0,
                       !.run_cpu.at = "done"]

\* 0x4C JMP abs, cycle 3: the high byte, pc = target
jmp_abs_3(m) ==
    LET pc == m.cpu.pc
    IN  IF ~Mapped(pc) THEN Panic(m, UnmappedAddress(pc))
        ELSE [m EXCEPT !.cpu.pc = u16_from(m.run_cpu.target_lo, read_u8(m, pc)),
                       !.run_cpu.target_lo = 0,
                       !.run_cpu.at = "done"]

\* an unknown opcode taken as a one-byte no-op
unimplemented_opcode_skipped(m) == [m EXCEPT !.run_cpu.at = "done"]

\* _ => unimplemented!("Opcode {:02X}", opcode)
unimplemented_opcode(m) == Panic(m, UnimplementedOpcode(m.run_cpu.opcode))

Implemented == {\HA9, \H69, \HAA, \H86, \HA5, \H4C}

\* the whole resume of run_cpu: where it was suspended and the match on opcode
resume_cpu(m) ==
    CASE m.run_cpu.at \in {"start", "done"} -> fetch(m)
      [] m.run_cpu.at = "stx_addr" -> stx_zp_3(m)
      [] m.run_cpu.at = "lda_addr" -> lda_zp_3(m)
      [] m.run_cpu.at = "jmp_lo" -> jmp_abs_3(m)
      [] m.run_cpu.at = "opcode" ->
            CASE m.run_cpu.opcode = \HA9 -> lda_imm(m)
              [] m.run_cpu.opcode = \H69 -> adc_imm(m)
              [] m.run_cpu.opcode = \HAA -> tax(m)
              [] m.run_cpu.opcode = \H86 -> stx_zp_2(m)
              [] m.run_cpu.opcode = \HA5 -> lda_zp_2(m)
              [] m.run_cpu.opcode = \H4C -> jmp_abs_2(m)
              [] OTHER -> unimplemented_opcode(m)

-----------------------------------------------------------------------------
(* Nes::run_ppu *)

\* the inner loop with an inclusive range, a frame of 341*262 + 1 dots
next_cycle_inclusive(g) ==
    IF g.at = "start" THEN 0
    ELSE IF g.cycle + 1 <= PPU_CYCLES_PER_FRAME THEN g.cycle + 1 ELSE 0

\* the for loops: the dot after the one run_ppu is suspended in
next_cycle(g) ==
    IF g.at = "start" THEN 0
    ELSE IF g.cycle + 1 < PPU_CYCLES_PER_FRAME THEN g.cycle + 1 ELSE 0

\* the NMI rounded to the first dot of the frame
nmi_starts_at_wrap(cycle) == cycle = 0

\* the NMI held from the second dot on, cycle >= 1
nmi_starts_held(cycle) == cycle >= 1

\* if cycle == 1 { self.cpu.nmi.set(true); }
nmi_starts(cycle) == cycle = 1

-----------------------------------------------------------------------------
(* The state as one machine value, and its history *)

M == [cpu |-> cpu, ram |-> ram, rom |-> rom, run_cpu |-> run_cpu, fatal |-> fatal]

Running(lim) == fatal = None /\ (lim = Unlimited \/ hist.cycles < lim)

Bump(lim, n) == IF lim = Unlimited THEN n ELSE n + 1

\* history after a resume of run_cpu that reached its yield: the counters, and
\* for the instruction in flight its cycles so far, whether its fetch acknowledged
\* an NMI, and pc and a as they were when it was fetched
CpuHist(lim, fetching) ==
    [hist EXCEPT !.cpu_cycles = Bump(lim, @),
                 !.nmi_acks = IF fetching /\ cpu.nmi THEN Bump(lim, @) ELSE @,
                 !.instr_cycles = IF fetching THEN 1 ELSE @ + 1,
                 !.acked = IF fetching THEN cpu.nmi ELSE @,
                 !.instr_pc = IF fetching THEN cpu.pc ELSE @,
                 !.instr_a = IF fetching THEN cpu.a ELSE @]

-----------------------------------------------------------------------------
(* Nes::run resumes run_cpu once: the actions of the CPU stepper *)

ResumeCpu(lim, m, fetching) ==
    /\ Running(lim)
    /\ nes_run.at = "cpu"
    /\ cpu' = m.cpu
    /\ ram' = m.ram
    /\ run_cpu' = m.run_cpu
    /\ fatal' = m.fatal
    /\ IF m.fatal # None
       THEN UNCHANGED <<nes_run, hist>>
       ELSE IF m.run_cpu.at = "complete"
       THEN \* GeneratorState::Complete(_) => { break; }: run returns, main breaks
            /\ nes_run' = [at |-> "complete", i |-> 0]
            /\ UNCHANGED hist
       ELSE \* GeneratorState::Yielded(()) => { }
            /\ nes_run' = [at |-> "ppu", i |-> 0]
            /\ hist' = CpuHist(lim, fetching)
    /\ UNCHANGED <<rom, run_ppu>>

CpuFetch(lim) ==
    /\ run_cpu.at \in {"start", "done"}
    /\ ResumeCpu(lim, fetch(M), TRUE)

CpuLdaImm(lim) ==
    /\ run_cpu.at = "opcode" /\ run_cpu.opcode = \HA9
    /\ ResumeCpu(lim, lda_imm(M), FALSE)

CpuAdcImm(lim) ==
    /\ run_cpu.at = "opcode" /\ run_cpu.opcode = \H69
    /\ ResumeCpu(lim, adc_imm(M), FALSE)

CpuTax(lim) ==
    /\ run_cpu.at = "opcode" /\ run_cpu.opcode = \HAA
    /\ ResumeCpu(lim, tax(M), FALSE)

CpuStxZp2(lim) ==
    /\ run_cpu.at = "opcode" /\ run_cpu.opcode = \H86
    /\ ResumeCpu(lim, stx_zp_2(M), FALSE)

CpuStxZp3(lim) ==
    /\ run_cpu.at = "stx_addr"
    /\ ResumeCpu(lim, stx_zp_3(M), FALSE)

CpuLdaZp2(lim) ==
    /\ run_cpu.at = "opcode" /\ run_cpu.opcode = \HA5
    /\ ResumeCpu(lim, lda_zp_2(M), FALSE)

CpuLdaZp3(lim) ==
    /\ run_cpu.at = "lda_addr"
    /\ ResumeCpu(lim, lda_zp_3(M), FALSE)

CpuJmpAbs2(lim) ==
    /\ run_cpu.at = "opcode" /\ run_cpu.opcode = \H4C
    /\ ResumeCpu(lim, jmp_abs_2(M), FALSE)

CpuJmpAbs3(lim) ==
    /\ run_cpu.at = "jmp_lo"
    /\ ResumeCpu(lim, jmp_abs_3(M), FALSE)

CpuUnimplemented(lim) ==
    /\ run_cpu.at = "opcode" /\ run_cpu.opcode \notin Implemented
    /\ ResumeCpu(lim, unimplemented_opcode(M), FALSE)

-----------------------------------------------------------------------------
(* Nes::run resumes run_ppu, three times: one dot of the video clock *)

\* the loop with an inclusive range, 0..=3
ppu_loop_inclusive(i) ==
    IF i + 1 <= PPU_PER_CPU THEN [at |-> "ppu", i |-> i + 1]
    ELSE [at |-> "yield", i |-> 0]

\* for _ in 0..3 { resume run_ppu }, then the yield; i counts the dots done
ppu_loop(i) ==
    IF i + 1 < PPU_PER_CPU THEN [at |-> "ppu", i |-> i + 1]
    ELSE [at |-> "yield", i |-> 0]

\* the body of the dot loop with the flag assigned, nmi.set(cycle == 1)
ppu_dot_assigning(c, cycle) == [c EXCEPT !.nmi = nmi_starts(cycle)]

\* the body of the dot loop: what one dot does to the Cpu cells
ppu_dot(c, cycle) == IF nmi_starts(cycle) THEN [c EXCEPT !.nmi = TRUE] ELSE c

PpuDot(lim) ==
    /\ Running(lim)
    /\ nes_run.at = "ppu"
    /\ LET cycle == next_cycle(run_ppu)
       IN  /\ run_ppu' = [at |-> "yield", cycle |-> cycle]
           /\ cpu' = ppu_dot(cpu, cycle)
           /\ hist' = [hist EXCEPT
                         !.ppu_dots = Bump(lim, @),
                         !.nmi_raised = IF nmi_starts(cycle) THEN Bump(lim, @) ELSE @,
                         !.raised_at = IF nmi_starts(cycle) THEN hist.cycles ELSE @,
                         !.frame = IF run_ppu.at = "yield" /\ cycle = 0
                                   THEN Bump(lim, @) ELSE @]
    /\ nes_run' = ppu_loop(nes_run.i)
    /\ UNCHANGED <<ram, rom, run_cpu, fatal>>

-----------------------------------------------------------------------------
(* Nes::run yields, main prints "> Cycle" and resumes it *)

MainCycle(lim) ==
    /\ Running(lim)
    /\ nes_run.at = "yield"
    /\ nes_run' = [at |-> "cpu", i |-> 0]
    /\ hist' = [hist EXCEPT !.cycles = Bump(lim, @)]
    /\ UNCHANGED <<cpu, ram, rom, run_cpu, run_ppu, fatal>>

-----------------------------------------------------------------------------
(* Power-up: main builds the Nes from a Rom and creates the generators *)

PowerUp(r) ==
    LET nes == from_rom(r)
    IN  /\ cpu = nes.cpu
        /\ ram = nes.ram
        /\ rom = nes.rom
        /\ run_cpu = Suspended("start", 0, 0, 0)
        /\ run_ppu = [at |-> "start", cycle |-> 0]
        /\ nes_run = [at |-> "cpu", i |-> 0]
        /\ fatal = None
        /\ hist = [cycles |-> 0, cpu_cycles |-> 0, ppu_dots |-> 0, nmi_raised |-> 0,
                   nmi_acks |-> 0, frame |-> 0, instr_cycles |-> 0, acked |-> FALSE,
                   instr_pc |-> 0, instr_a |-> 0, raised_at |-> 0,
                   accesses |-> 0, bus |-> [op |-> "none", addr |-> 0, value |-> 0]]

Step(lim) ==
    \/ CpuFetch(lim)
    \/ CpuLdaImm(lim)
    \/ CpuAdcImm(lim)
    \/ CpuTax(lim)
    \/ CpuStxZp2(lim)
    \/ CpuStxZp3(lim)
    \/ CpuLdaZp2(lim)
    \/ CpuLdaZp3(lim)
    \/ CpuJmpAbs2(lim)
    \/ CpuJmpAbs3(lim)
    \/ CpuUnimplemented(lim)
    \/ PpuDot(lim)
    \/ MainCycle(lim)

-----------------------------------------------------------------------------
(* The ROMs the machine is powered up with *)

Vals == {\H02, \H06, \HFF}
ZpAddrs == {\H01, \HFF}
Targets == {\H8000, \H8002, \HC000, \H0000, \H4000}

Instrs ==
    {<<\HA9, v>> : v \in Vals} \cup {<<\H69, v>> : v \in Vals} \cup {<<\HAA>>}
    \cup {<<\H86, z>> : z \in ZpAddrs} \cup {<<\HA5, z>> : z \in ZpAddrs}
    \cup {<<\H4C, t % 256, t \div 256>> : t \in Targets}

RECURSIVE ProgramsUpTo(_)
ProgramsUpTo(n) ==
    IF n = 0 THEN {<<>>}
    ELSE LET shorter == ProgramsUpTo(n - 1)
         IN  shorter \cup {p \o i : p \in shorter, i \in Instrs}

\* a program that stores an opcode in the zero page and jumps into RAM
ram_program == <<\HA9, \HAA, \HAA, \H86, \H01, \H4C, \H01, \H00>>

\* every immediate operand, every accumulator against the edge values and back,
\* and jumps across the whole address space
OperandPrograms ==
    {<<\HA9, v>> : v \in Byte}
    \cup {<<\HA9, a, \H69, v>> : a \in Byte, v \in Vals}
    \cup {<<\HA9, a, \H69, v>> : a \in Vals, v \in Byte}
    \cup {<<\H4C, lo, hi>> : lo \in {\H00, \HFF}, hi \in Byte}

Roms ==
    {MakeRom(p, \H8000) : p \in ProgramsUpTo(MaxInstrs) \cup OperandPrograms}
    \cup {MakeRom(sample_program, reset) :
              reset \in {\H8000, \H8002, \HC000, \H0000, \H4000, \HFFFE}}
    \cup {MakeRom(ram_program, \H8000)}

FrameRoms == {sample_rom, MakeRom(<<>>, \H8000)}

Init == \E r \in Roms : PowerUp(r)
Next == Step(MaxCycles)
Spec == Init /\ [][Next]_vars

FrameCycles == PPU_CYCLES_PER_FRAME * MaxFrames + 1
InitFrame == \E r \in FrameRoms : PowerUp(r)
NextFrame == Step(FrameCycles)
SpecFrame == InitFrame /\ [][NextFrame]_vars

-----------------------------------------------------------------------------
(* The bus on its own: read_u8 and write_u8 called with any address.  hist.bus *)
(* records the call and, for a read, the byte returned.                        *)

BusAddrs ==
    {\H0000, \H0001, \H00FF, \H07FF, \H0800, \H0801, \H1FFF, \H2000, \H7FFF,
     \H8000, \H8001, \HBFFD, \HC000, \HC001, \HFFFD, \HFFFF}
BusVals == {\H0B, \HFF}

BusCall(op, addr, value) ==
    [hist EXCEPT !.accesses = @ + 1,
                 !.bus = [op |-> op, addr |-> addr, value |-> value]]

BusRead(addr) ==
    /\ fatal = None
    /\ hist.accesses < MaxAccesses
    /\ IF Mapped(addr)
       THEN /\ hist' = BusCall("read", addr, read_u8(M, addr))
            /\ UNCHANGED fatal
       ELSE /\ hist' = BusCall("read", addr, 0)
            /\ fatal' = UnmappedAddress(addr)
    /\ UNCHANGED <<cpu, ram, rom, run_cpu, run_ppu, nes_run>>

BusWrite(addr, value) ==
    /\ fatal = None
    /\ hist.accesses < MaxAccesses
    /\ hist' = BusCall("write", addr, value)
    /\ IF Mapped(addr)
       THEN /\ ram' = write_u8(M, addr, value)
            /\ UNCHANGED fatal
       ELSE /\ fatal' = UnmappedAddress(addr)
            /\ UNCHANGED ram
    /\ UNCHANGED <<cpu, rom, run_cpu, run_ppu, nes_run>>

NextBus ==
    \E addr \in BusAddrs :
        \/ BusRead(addr)
        \/ \E value \in BusVals : BusWrite(addr, value)
SpecBus == InitFrame /\ [][NextBus]_vars

\* main never stops resuming Nes::run: every resume that can be taken is taken
NextLive == Step(Unlimited)
SpecLive == InitFrame /\ [][NextLive]_vars /\ WF_vars(NextLive)

-----------------------------------------------------------------------------
(* Properties *)

CpuResumed == nes_run.at = "cpu"
PpuResumed == nes_run.at = "ppu"
AtBoundary == run_cpu.at \in {"start", "done"}
InFlight == run_cpu.at \in {"opcode", "stx_addr", "lda_addr", "jmp_lo"}

\* C1: in every master cycle run_cpu is resumed once and its step completes, then
\* run_ppu is resumed three times, then Nes::run yields: before the CPU step the
\* machine has done as many CPU cycles as master cycles and three dots for each;
\* during the dots it has done one CPU cycle more and as many dots more as the
\* loop has counted (fewer than three); at the yield it has done exactly three
\* dots for every CPU cycle.
C1_Lockstep ==
    /\ nes_run.at \in {"cpu", "ppu", "yield"}
    /\ nes_run.at = "cpu" =>
          /\ hist.cpu_cycles = hist.cycles
          /\ hist.ppu_dots = 3 * hist.cycles
    /\ nes_run.at = "ppu" =>
          /\ nes_run.i \in 0 .. 2
          /\ hist.cpu_cycles = hist.cycles + 1
          /\ hist.ppu_dots = 3 * hist.cycles + nes_run.i
    /\ nes_run.at = "yield" =>
          /\ hist.cpu_cycles = hist.cycles + 1
          /\ hist.ppu_dots = 3 * hist.cpu_cycles

C1_Witness ==
    /\ nes_run.at = "yield"
    /\ hist.cycles = 2
    /\ hist.cpu_cycles = 3
    /\ hist.ppu_dots = 9

\* the registers, memory and generator state of a machine, the NMI flag left out
BesidesNmi(m) ==
    [pc |-> m.cpu.pc, a |-> m.cpu.a, x |-> m.cpu.x, y |-> m.cpu.y, s |-> m.cpu.s,
     p |-> m.cpu.p, ram |-> m.ram, run_cpu |-> m.run_cpu, fatal |-> m.fatal]

\* C2: the NMI flag is cleared only by a CPU step that begins an instruction; a
\* CPU step of an instruction in flight taken with the flag raised leaves the flag
\* raised and changes registers, memory and generator state exactly as the same
\* step taken with the flag not raised.
C2_NmiOnlyAtBoundary ==
    [][ /\ (cpu.nmi /\ ~cpu'.nmi) => (CpuResumed /\ AtBoundary)
        /\ (CpuResumed /\ InFlight /\ cpu.nmi) =>
              /\ cpu'.nmi
              /\ BesidesNmi([M EXCEPT !.cpu = cpu', !.ram = ram',
                                      !.run_cpu = run_cpu', !.fatal = fatal'])
                   = BesidesNmi(resume_cpu([M EXCEPT !.cpu.nmi = FALSE]))
      ]_vars

\* the third cycle of the first instruction has run with the flag raised in its
\* first cycle, and the flag is still raised
C2_Witness ==
    /\ cpu.nmi
    /\ nes_run.at = "ppu"
    /\ run_cpu.at = "done"
    /\ hist.instr_cycles = 3
    /\ hist.nmi_raised = 1
    /\ hist.nmi_acks = 0

\* C3: the video clock raises the NMI flag in exactly the dot steps whose dot
\* index in the frame is 1, so once per frame: the raises so far are the frames
\* completed, plus one when the current frame is past dot 0; the dot index
\* counts up by one and wraps from 341*262-1 to 0.
C3_NmiAtDotOne ==
    /\ [](/\ run_ppu.cycle \in 0 .. PPU_CYCLES_PER_FRAME - 1
          /\ hist.nmi_raised =
                hist.frame + (IF run_ppu.at = "yield" /\ run_ppu.cycle >= 1 THEN 1 ELSE 0))
    /\ [][ /\ (hist.nmi_raised' # hist.nmi_raised) <=> (PpuResumed /\ run_ppu'.cycle = 1)
           /\ PpuResumed =>
                 /\ cpu'.nmi = (cpu.nmi \/ run_ppu'.cycle = 1)
                 /\ run_ppu'.cycle =
                       IF run_ppu.at = "start" \/ run_ppu.cycle = 341 * 262 - 1
                       THEN 0 ELSE run_ppu.cycle + 1
         ]_vars

\* dot 1 of the second frame has been stepped, after the wrap from 341*262-1
C3_Witness ==
    /\ hist.frame = 1
    /\ run_ppu.cycle = 1
    /\ hist.nmi_raised = 2
    /\ hist.ppu_dots = 341 * 262 + 2

\* main has printed "> Cycle" n times and Nes::run is about to start the next cycle
RanCycles(n) == nes_run.at = "cpu" /\ hist.cycles = n

\* C4 as stated: after 341*262*N + 1 master cycles the NMI flag has been raised
\* exactly N times.
C4_Original ==
    \A N \in 0 .. MaxFrames :
        RanCycles(PPU_CYCLES_PER_FRAME * N + 1) => hist.nmi_raised = N

\* C4 amended: a master cycle steps three dots, so 341*262*N + 1 master cycles
\* are 3*N frames and three dots, and the NMI flag has been raised exactly
\* 3*N + 1 times, each raise in a dot step with dot index 1.
C4_RaisedThreePerFrameCycles ==
    /\ [](\A N \in 0 .. MaxFrames :
             RanCycles(PPU_CYCLES_PER_FRAME * N + 1) => hist.nmi_raised = 3 * N + 1)
    /\ [][hist.nmi_raised' # hist.nmi_raised =>
             (PpuResumed /\ run_ppu'.cycle = 1 /\ hist.nmi_raised' = hist.nmi_raised + 1)]_vars

C4_Witness ==
    /\ RanCycles(341 * 262 + 1)
    /\ hist.nmi_raised = 4
    /\ hist.ppu_dots = 3 * (341 * 262 + 1)
    /\ hist.frame = 3

\* the interrupt vector the acknowledge is meant to read (the TODO in run_cpu)
INTERRUPT_VECTOR == \HFFFE

\* C5 as stated: a fetch step taken with the NMI flag raised clears the flag and
\* fetches the opcode from the address stored at the interrupt vector, not from
\* the interrupted program counter.
C5_Original ==
    [][(CpuResumed /\ AtBoundary /\ cpu.nmi /\ fatal' = None) =>
          LET handler == read_u16(M, INTERRUPT_VECTOR)
          IN  /\ ~cpu'.nmi
              /\ run_cpu'.opcode = read_u8(M, handler)
              /\ cpu'.pc = wrapping_add16(handler, 1)]_vars

\* the results of the sample program: 5 + 6 in A, in X and in RAM[0x0001]
SampleResults ==
    /\ cpu.a = \H0B
    /\ cpu.x = \H0B
    /\ ram_get(ram, \H0001) = \H0B

\* the sample program has its results and is in the jump at 0x8009
SampleLooping ==
    /\ rom = sample_rom
    /\ SampleResults
    /\ cpu.pc \in {\H8009, \H800A, \H800B}
    /\ fatal = None

\* C6: powered up with sample_rom, the machine reaches A = X = RAM[0x0001] = 0x0B
\* with pc = 0x8009; once there the three values stay, pc stays within the jump
\* at 0x8009 and no panic occurs; and pc is 0x8009 again and again.
C6_SampleProgram ==
    /\ [][SampleLooping => SampleLooping']_vars
    /\ (rom = sample_rom) => []<>(SampleLooping /\ cpu.pc = \H8009)

\* the jump at 0x8009 has run to its end and pc is 0x8009 again
C6_Witness ==
    /\ SampleLooping
    /\ cpu.pc = \H8009
    /\ run_cpu.at = "done"
    /\ run_cpu.opcode = \H4C
    /\ nes_run.at = "yield"

\* the cycles each opcode takes on the hardware
HwCycles(opcode) ==
    CASE opcode = \HA9 -> 2
      [] opcode = \H69 -> 2
      [] opcode = \HAA -> 2
      [] opcode = \H86 -> 3
      [] opcode = \HA5 -> 3
      [] opcode = \H4C -> 3

\* C7: an instruction that has yielded for the last time has taken exactly the
\* cycles of its opcode since its fetch (0xA9, 0x69, 0xAA: 2; 0x86, 0xA5, 0x4C: 3),
\* whatever its operands, the registers and whether its fetch acknowledged an
\* NMI; an instruction in flight has taken fewer.
C7_FixedCycles ==
    /\ run_cpu.at = "done" =>
          /\ run_cpu.opcode \in Implemented
          /\ hist.instr_cycles = HwCycles(run_cpu.opcode)
    /\ (InFlight /\ run_cpu.opcode \in Implemented) =>
          hist.instr_cycles \in 1 .. HwCycles(run_cpu.opcode) - 1

\* a zero-page store whose fetch acknowledged the NMI has finished in 3 cycles
C7_Witness ==
    /\ run_cpu.at = "done"
    /\ run_cpu.opcode = \H86
    /\ hist.acked
    /\ hist.instr_cycles = 3
    /\ fatal = None

\* the byte after the opcode of the instruction in flight or just finished
Operand(n) == read_u8(M, wrapping_add16(hist.instr_pc, n))

\* C8: when 0xA9 v has yielded for the last time the accumulator is v, pc is the
\* address of the opcode plus 2, and the instruction has taken 2 cycles.
C8_LoadImmediate ==
    (run_cpu.at = "done" /\ run_cpu.opcode = \HA9) =>
        /\ cpu.a = Operand(1)
        /\ cpu.a \in Byte
        /\ cpu.pc = wrapping_add16(hist.instr_pc, 2)
        /\ hist.instr_cycles = 2

C8_Witness ==
    /\ run_cpu.at = "done"
    /\ run_cpu.opcode = \HA9
    /\ Operand(1) = \HFE
    /\ cpu.a = \HFE
    /\ cpu.pc = \H8002
    /\ nes_run.at = "yield"

\* C9: when 0x4C lo hi has yielded for the third time pc is lo | hi << 8,
\* wherever the instruction was fetched from; after its first yield pc is the
\* address of the opcode plus 1, after its second plus 2.
C9_AbsoluteJump ==
    /\ (run_cpu.at = "opcode" /\ run_cpu.opcode = \H4C) =>
          /\ cpu.pc = wrapping_add16(hist.instr_pc, 1)
          /\ hist.instr_cycles = 1
    /\ run_cpu.at = "jmp_lo" =>
          /\ cpu.pc = wrapping_add16(hist.instr_pc, 2)
          /\ hist.instr_cycles = 2
    /\ (run_cpu.at = "done" /\ run_cpu.opcode = \H4C) =>
          /\ cpu.pc = Operand(1) + Operand(2) * 256
          /\ cpu.pc \in 0 .. U16 - 1
          /\ hist.instr_cycles = 3

\* a jump fetched from 0x8002 has landed in the mirror of the ROM
C9_Witness ==
    /\ run_cpu.at = "done"
    /\ run_cpu.opcode = \H4C
    /\ hist.instr_pc = \H8002
    /\ cpu.pc = \HC000
    /\ hist.instr_cycles = 3

\* C10: when 0x69 v has yielded for the last time the accumulator is the
\* accumulator at its fetch plus v, modulo 256; the cycle that adds never panics
\* when its operand is readable.
C10_AddImmediate ==
    /\ []((run_cpu.at = "done" /\ run_cpu.opcode = \H69) =>
             /\ cpu.a = (hist.instr_a + Operand(1)) % 256
             /\ cpu.a \in Byte)
    /\ [][(CpuResumed /\ run_cpu.at = "opcode" /\ run_cpu.opcode = \H69
              /\ Mapped(cpu.pc)) =>
             (fatal' = None /\ run_cpu'.at = "done")]_vars

\* 0xFF + 0x02 has wrapped to 0x01
C10_Witness ==
    /\ run_cpu.at = "done"
    /\ run_cpu.opcode = \H69
    /\ hist.instr_a = \HFF
    /\ Operand(1) = \H02
    /\ cpu.a = \H01
    /\ fatal = None

-----------------------------------------------------------------------------
(* Properties of the bus *)

\* this step is a call of read_u8 or write_u8
BusStep == hist'.accesses # hist.accesses
Called == hist'.bus

\* the 2 KiB RAM and its mirrors on the hardware
RamMirrors == 0 .. \H1FFF

\* C11 as stated: a read of an address a in the RAM mirror window returns the
\* RAM byte at a mod 0x0800, and after a write of v to a that byte is v.
C11_Original ==
    [][(BusStep /\ Called.addr \in RamMirrors) =>
          /\ fatal' = None
          /\ Called.op = "read" => Called.value = ram_get(ram, Called.addr % \H0800)
          /\ Called.op = "write" => ram_get(ram', Called.addr % \H0800) = Called.value
      ]_vars

\* the byte of the ROM at an offset, by the layout of the image: the code,
\* zeros up to 0x3FFA, then the six vector bytes
RomByte(off) ==
    IF off >= \H3FFA THEN rom.interrupt_vectors[off - \H3FFA + 1]
    ELSE IF off < Len(rom.program) THEN rom.program[off + 1]
    ELSE 0

\* C12: a write to an address in 0x8000..=0xFFFF does not panic and leaves ROM,
\* RAM and registers as they were, so every mapped address reads as before; a
\* read of such an address returns the ROM byte at (a - 0x8000) mod 0x4000.
C12_RomWritesIgnored ==
    [][(BusStep /\ Called.addr \in \H8000 .. \HFFFF) =>
          /\ fatal' = None
          /\ <<rom', ram', cpu'>> = <<rom, ram, cpu>>
          /\ Called.op = "write" =>
                \A a \in BusAddrs :
                    Mapped(a) => read_u8([M EXCEPT !.ram = ram', !.rom = rom'], a)
                                     = read_u8(M, a)
          /\ Called.op = "read" =>
                Called.value = RomByte((Called.addr - \H8000) % \H4000)
      ]_vars

\* a write to the mirror of the reset vector went through, after a RAM write, and
\* changed nothing
C12_Witness ==
    /\ hist.bus = [op |-> "write", addr |-> \HFFFD, value |-> \HFF]
    /\ hist.accesses = 2
    /\ ram_get(ram, \H0001) = \H0B
    /\ rom = sample_rom
    /\ fatal = None

\* C13: a step taken after the fetch of a byte that is not an implemented opcode
\* panics with UnimplementedOpcode of that byte and changes nothing else; a
\* panicked machine takes no further step; and no other step raises this panic.
C13_UnimplementedIsFatal ==
    [][ /\ fatal = None
        /\ (CpuResumed /\ run_cpu.at = "opcode"
               /\ run_cpu.opcode \notin {\HA9, \H69, \HAA, \H86, \HA5, \H4C}) =>
              /\ fatal' = <<"UnimplementedOpcode", run_cpu.opcode>>
              /\ <<cpu', ram', rom', run_cpu', run_ppu', nes_run', hist'>>
                   = <<cpu, ram, rom, run_cpu, run_ppu, nes_run, hist>>
        /\ (fatal'[1] = "UnimplementedOpcode") =>
              (CpuResumed /\ run_cpu.at = "opcode"
                  /\ run_cpu.opcode \notin {\HA9, \H69, \HAA, \H86, \HA5, \H4C})
      ]_vars

\* the zero after a two-byte program was fetched as an opcode: its cycle ran to
\* the yield, and the next resume panicked
C13_Witness ==
    /\ fatal = <<"UnimplementedOpcode", 0>>
    /\ hist.instr_pc = \H8002
    /\ hist.cycles = 3
    /\ hist.cpu_cycles = 3
    /\ hist.ppu_dots = 9

C15_PowerUpState ==
    (run_cpu.at = "start" /\ fatal = None) =>
        /\ cpu.pc = RomByte(\H3FFC) + 256 * RomByte(\H3FFD)
        /\ cpu.s = \HFD
        /\ cpu.p = \H34
        /\ cpu.a = 0 /\ cpu.x = 0 /\ cpu.y = 0
        /\ cpu.nmi = FALSE
        /\ \A off \in 0 .. 2047 : ram_get(ram, off) = 0

\* powered up with the reset vector in the mirror of the ROM
C15_Witness ==
    /\ run_cpu.at = "start"
    /\ hist.cpu_cycles = 0
    /\ cpu.pc = \HC000
    /\ rom.interrupt_vectors = <<0, 0, 0, \HC0, 0, 0>>
    /\ fatal = None

-----------------------------------------------------------------------------
(* Properties of the interplay of the two steppers *)

\* master cycles completed since the video clock last raised the NMI flag
SinceRaise == hist.cycles - hist.raised_at

\* C16: a fetch step taken with the NMI flag raised clears it, and it is taken 1,
\* 2 or 3 master cycles after the cycle in which the video clock raised the flag;
\* while no panic has occurred the flag is never pending longer, and after three
\* cycles only up to the CPU step that is about to fetch.
C16_InterruptLatency ==
    /\ []((cpu.nmi /\ fatal = None /\ hist.nmi_raised > 0) =>
             /\ SinceRaise \in 0 .. 3
             /\ SinceRaise = 3 => (CpuResumed /\ AtBoundary))
    /\ [][ /\ (CpuResumed /\ AtBoundary /\ cpu.nmi) => ~cpu'.nmi
           /\ (cpu.nmi /\ ~cpu'.nmi) => SinceRaise \in 1 .. 3
         ]_vars

\* the flag raised in the third frame was acknowledged in the very next cycle
C16_Witness ==
    /\ hist.nmi_raised = 3
    /\ hist.nmi_acks = 3
    /\ hist.acked
    /\ hist.instr_cycles = 1
    /\ SinceRaise = 1
    /\ ~cpu.nmi

\* the CPU step of the current master cycle has cleared the NMI flag
ClearedThisCycle ==
    nes_run.at \in {"ppu", "yield"} /\ hist.acked /\ hist.instr_cycles = 1

\* C17: no dot step sets the NMI flag in a master cycle whose CPU step has
\* cleared it.
C17_OneWriterPerCycle ==
    [][(PpuResumed /\ hist'.nmi_raised # hist.nmi_raised) => ~ClearedThisCycle]_vars

\* a master cycle in which the CPU step cleared the flag has run its three dots
C17_Witness ==
    /\ nes_run.at = "yield"
    /\ ClearedThisCycle
    /\ ~cpu.nmi
    /\ hist.nmi_raised = 2
    /\ hist.nmi_acks = 2

\* C18: a dot step leaves pc, A, X, Y, S, P, RAM and ROM as they were; of the
\* machine it can change only the NMI flag, and only to true.
C18_DotTouchesOnlyNmi ==
    [][PpuResumed =>
          /\ <<cpu'.pc, cpu'.a, cpu'.x, cpu'.y, cpu'.s, cpu'.p>>
               = <<cpu.pc, cpu.a, cpu.x, cpu.y, cpu.s, cpu.p>>
          /\ ram' = ram
          /\ rom' = rom
          /\ cpu'.nmi # cpu.nmi => cpu'.nmi
      ]_vars

\* the dot that raises the flag has just run, the machine powered up in the
\* mirror of the ROM
C18_Witness ==
    /\ run_ppu.cycle = 1
    /\ nes_run = [at |-> "ppu", i |-> 2]
    /\ cpu.nmi
    /\ hist.nmi_raised = 1
    /\ cpu.pc = \HC001

\* C19: no generator ever returns, so the Complete branches of Nes::run and of
\* main are never taken; and in a run in which no panic ever occurs Nes::run
\* yields a master cycle again and again.
C19_NeverCompletes ==
    /\ [][ /\ run_cpu'.at # "complete"
           /\ run_ppu'.at # "complete"
           /\ nes_run'.at # "complete" ]_vars
    /\ [](fatal = None) => []<>(nes_run.at = "yield")

\* the sample program is in its loop and Nes::run yields at the end of the
\* third scanline
C19_Witness ==
    /\ SampleLooping
    /\ nes_run.at = "yield"
    /\ run_ppu.cycle = 3 * 341 - 1

\* C20: in every reachable state S = 0xFD, P = 0x34 and Y = 0, and no step
\* changes the ROM.
C20_UntouchedRegisters ==
    /\ [](cpu.s = \HFD /\ cpu.p = \H34 /\ cpu.y = 0)
    /\ [][rom' = rom]_vars

\* after an NMI acknowledge, a transfer and a store
C20_Witness ==
    /\ hist.nmi_acks = 1
    /\ cpu.a = \HAA
    /\ cpu.x = \HAA
    /\ ram_get(ram, \H0001) = \HAA
    /\ cpu.pc \in 0 .. \H07FF
    /\ cpu.s = \HFD /\ cpu.p = \H34 /\ cpu.y = 0

====
